---- MODULE Spec2Model ----
(***************************************************************************)
(* FairAid Guardian: the aggregation-and-classification pipeline of        *)
(* fairaid_app_local_demo.py (coverage, fairness, anomalies, rule-based    *)
(* insight) and the control flow of one run of the warehouse-backed        *)
(* fairaid_app.py (sidebar, view fetch, tabs, error handlers).             *)
(*                                                                         *)
(* Amounts are integers (half-cent units, so that the 1.5x of a duplicated *)
(* record stays an integer).  Means and percentages are exact rationals    *)
(* [n, d] in lowest terms; d = 0 encodes the IEEE results of a division by *)
(* zero: [0, 0] is NaN, [1, 0] is +inf, [-1, 0] is -inf.  Float rounding   *)
(* is not modelled.                                                        *)
(***************************************************************************)
EXTENDS Integers, Sequences, FiniteSets, TLC

VARIABLES pc, df_beneficiaries, df_coverage, df_fairness, df_anomalies,
          global_avg, kpi, selected_region, report, actions,
          wh, data_source, errors, rendered, calls

vars == <<pc, df_beneficiaries, df_coverage, df_fairness, df_anomalies,
          global_avg, kpi, selected_region, report, actions,
          wh, data_source, errors, rendered, calls>>

(***************************************************************************)
(* Bounds of the model.                                                    *)
(***************************************************************************)
\* range(1000) in load_mock_data: number of generated records
MaxRecords == 2
\* df.sample(5): number of records duplicated
MaxDupes == 1

\* BENEFICIARY_ID values (the code draws BEN-10000..BEN-99998)
Ids == {"BEN-1", "BEN-2"}
\* groupby sorts its keys; the order of the ids
IdOrder == <<"BEN-1", "BEN-2">>
\* regions of the model (the code has North, South, East, West)
Regions == {"North", "South"}
\* groupby('REGION') sorts its keys; the order of the regions
RegionOrder == <<"North", "South">>
\* AMOUNT_RECEIVED values a generated record can have (max(amount, 0))
Amounts == {0, 12, 18}
\* percentages range over the halves in -MaxPct .. MaxPct
MaxPct == 25

(***************************************************************************)
(* The thresholds of the code.                                             *)
(***************************************************************************)
\* abs(x) > 20: 'High Disparity'
HighDisparityPct == 20
\* abs(x) > 10: 'Moderate Disparity'
ModerateDisparityPct == 10
\* x < -15: 'Underfunded', x > 15: 'Overfunded'; diff < -15, diff > 15
FundingBandPct == 15
\* row['PERCENT_DIFF'] < -10, > 10 of the warehouse-backed app
SuggestedActionPct == 10

(***************************************************************************)
(* Exact arithmetic with the IEEE special values.                          *)
(***************************************************************************)
Abs(i) == IF i < 0 THEN -i ELSE i

Sign(i) == IF i < 0 THEN -1 ELSE IF i > 0 THEN 1 ELSE 0

RECURSIVE GCD(_, _)
GCD(a, b) == IF b = 0 THEN a ELSE GCD(b, a % b)

\* the value n/d, d >= 0, in lowest terms
Rat(n, d) ==
    IF d = 0 THEN [n |-> Sign(n), d |-> 0]
    ELSE LET g == GCD(Abs(n), d) IN [n |-> n \div g, d |-> d \div g]

NaN == [n |-> 0, d |-> 0]

IsNaN(x) == x.d = 0 /\ x.n = 0

FromInt(i) == [n |-> i, d |-> 1]

\* a - b; inf - inf is NaN
RatSub(a, b) ==
    IF IsNaN(a) \/ IsNaN(b) THEN NaN
    ELSE IF a.d = 0 /\ b.d = 0 THEN (IF a.n = b.n THEN NaN ELSE a)
    ELSE IF a.d = 0 THEN a
    ELSE IF b.d = 0 THEN [n |-> -b.n, d |-> 0]
    ELSE Rat(a.n * b.d - b.n * a.d, a.d * b.d)

\* a + b
RatAdd(a, b) == RatSub(a, [n |-> -b.n, d |-> b.d])

\* a / b; 0/0 is NaN, x/0 is +-inf
RatDiv(a, b) ==
    IF IsNaN(a) \/ IsNaN(b) THEN NaN
    ELSE IF a.d = 0 /\ b.d = 0 THEN NaN
    ELSE IF a.d = 0 THEN [n |-> a.n * (IF b.n < 0 THEN -1 ELSE 1), d |-> 0]
    ELSE IF b.d = 0 THEN FromInt(0)
    ELSE IF b.n = 0 THEN [n |-> Sign(a.n), d |-> 0]
    ELSE Rat(a.n * b.d * Sign(b.n), a.d * Abs(b.n))

\* a * k for an integer k > 0
RatScale(a, k) == IF a.d = 0 THEN a ELSE Rat(a.n * k, a.d)

\* abs(x)
RatAbs(x) == [n |-> Abs(x.n), d |-> x.d]

\* x > k and x < k for an integer k; every comparison with NaN is false
RatGT(x, k) == IF x.d = 0 THEN x.n > 0 ELSE x.n > k * x.d

RatLT(x, k) == IF x.d = 0 THEN x.n < 0 ELSE x.n < k * x.d

(***************************************************************************)
(* Column operations of the data frame.                                    *)
(***************************************************************************)
RECURSIVE SumSeq(_)
SumSeq(s) == IF s = <<>> THEN 0 ELSE Head(s) + SumSeq(Tail(s))

\* the sum after drop_duplicates('BENEFICIARY_ID'): first occurrences only
SumAmountDeduplicated(df) ==
    SumSeq([i \in DOMAIN df |->
        IF \E j \in 1..(i - 1) : df[j].BENEFICIARY_ID = df[i].BENEFICIARY_ID
        THEN 0 ELSE df[i].AMOUNT_RECEIVED])

\* Series.sum() of AMOUNT_RECEIVED
SumAmount(df) == SumSeq([i \in DOMAIN df |-> df[i].AMOUNT_RECEIVED])

\* Series.mean() of AMOUNT_RECEIVED; the mean of an empty series is NaN
MeanAmount(df) == IF df = <<>> THEN NaN ELSE Rat(SumAmount(df), Len(df))

RECURSIVE RatSum(_)
RatSum(s) == IF s = <<>> THEN FromInt(0) ELSE RatAdd(Head(s), RatSum(Tail(s)))

\* Series.mean() of a column of means
RatMean(s) == IF s = <<>> THEN NaN ELSE RatDiv(RatSum(s), FromInt(Len(s)))

\* the rows of one group
RowsOfRegion(df, r) == SelectSeq(df, LAMBDA rec : rec.REGION = r)

RowsOfId(df, b) == SelectSeq(df, LAMBDA rec : rec.BENEFICIARY_ID = b)

\* 'count' in place of 'nunique'
NCount(df) == Len(df)

\* 'nunique' of BENEFICIARY_ID
NUnique(df) == Cardinality({df[i].BENEFICIARY_ID : i \in DOMAIN df})

(***************************************************************************)
(* 1. Coverage: groupby('REGION').agg(nunique, sum, mean).reset_index()    *)
(***************************************************************************)
PresentRegions(df) ==
    SelectSeq(RegionOrder, LAMBDA r : \E i \in DOMAIN df : df[i].REGION = r)

CoverageRow(df, r) ==
    LET g == RowsOfRegion(df, r)
    IN  [REGION              |-> r,
         TOTAL_BENEFICIARIES |-> NUnique(g),
         TOTAL_DISTRIBUTED   |-> SumAmount(g),
         AVG_AMOUNT          |-> MeanAmount(g)]

Coverage(df) ==
    LET present == PresentRegions(df)
    IN  [k \in DOMAIN present |-> CoverageRow(df, present[k])]

(***************************************************************************)
(* 2. Fairness                                                             *)
(***************************************************************************)
\* the mean of the per-region means in place of the mean of all records
GlobalAvgOfRegionMeans(df) ==
    RatMean([k \in DOMAIN PresentRegions(df) |->
                MeanAmount(RowsOfRegion(df, PresentRegions(df)[k]))])

\* global_avg = df_beneficiaries['AMOUNT_RECEIVED'].mean()
GlobalAvg(df) == MeanAmount(df)

\* ((AVG_AMOUNT - global_avg) / global_avg) * 100
PercentDiff(avg, g) == RatScale(RatDiv(RatSub(avg, g), g), 100)

\* x in place of abs(x)
StatusWithoutAbs(x) ==
    IF RatGT(x, HighDisparityPct) THEN "High Disparity"
    ELSE IF RatGT(x, ModerateDisparityPct) THEN "Moderate Disparity"
    ELSE "Fair"

\* >= in place of > at the High Disparity threshold
StatusInclusive(x) ==
    IF ~RatLT(RatAbs(x), HighDisparityPct) /\ ~IsNaN(x) THEN "High Disparity"
    ELSE IF RatGT(RatAbs(x), ModerateDisparityPct) THEN "Moderate Disparity"
    ELSE "Fair"

Status(x) ==
    IF RatGT(RatAbs(x), HighDisparityPct) THEN "High Disparity"
    ELSE IF RatGT(RatAbs(x), ModerateDisparityPct) THEN "Moderate Disparity"
    ELSE "Fair"

DistributionType(x) ==
    IF RatLT(x, -FundingBandPct) THEN "Underfunded"
    ELSE IF RatGT(x, FundingBandPct) THEN "Overfunded"
    ELSE "Balanced"

FairnessRow(c, g) ==
    LET x == PercentDiff(c.AVG_AMOUNT, g)
    IN  [REGION              |-> c.REGION,
         TOTAL_BENEFICIARIES |-> c.TOTAL_BENEFICIARIES,
         TOTAL_DISTRIBUTED   |-> c.TOTAL_DISTRIBUTED,
         AVG_AMOUNT          |-> c.AVG_AMOUNT,
         GLOBAL_AVG          |-> g,
         PERCENT_DIFF        |-> x,
         STATUS              |-> Status(x),
         DISTRIBUTION_TYPE   |-> DistributionType(x)]

Fairness(cov, g) == [k \in DOMAIN cov |-> FairnessRow(cov[k], g)]

(***************************************************************************)
(* 3. Anomalies: groupby('BENEFICIARY_ID').size(), dup_counts > 1          *)
(***************************************************************************)
DupCount(df, b) == Len(RowsOfId(df, b))

\* dup_counts >= 1 in place of dup_counts > 1
IsDuplicatedInclusive(n) == n >= 1

IsDuplicated(n) == n > 1

AnomalyRow(df, b) ==
    [BENEFICIARY_ID |-> b,
     record_count   |-> DupCount(df, b),
     ANOMALY_TYPE   |-> "Duplicate Record",
     RISK_SCORE     |-> "High"]

Anomalies(df) ==
    LET dup == SelectSeq(IdOrder, LAMBDA b : IsDuplicated(DupCount(df, b)))
    IN  [k \in DOMAIN dup |-> AnomalyRow(df, dup[k])]

(***************************************************************************)
(* KPIs                                                                    *)
(***************************************************************************)
TotalAid(cov) == SumSeq([k \in DOMAIN cov |-> cov[k].TOTAL_DISTRIBUTED])

TotalBen(cov) == SumSeq([k \in DOMAIN cov |-> cov[k].TOTAL_BENEFICIARIES])

\* df_coverage['AVG_AMOUNT'].mean(): the mean of the per-region means
AvgAid(cov) == RatMean([k \in DOMAIN cov |-> cov[k].AVG_AMOUNT])

Kpi(cov, anomalies) ==
    [total_aid       |-> TotalAid(cov),
     total_ben       |-> TotalBen(cov),
     avg_aid         |-> AvgAid(cov),
     anomalies_count |-> Len(anomalies)]

NoKpi == [total_aid |-> 0, total_ben |-> 0, avg_aid |-> NaN, anomalies_count |-> 0]

(***************************************************************************)
(* Insight: the rule-based report of the local demo and the suggested     *)
(* actions of the warehouse-backed app.                                    *)
(***************************************************************************)
\* df_fairness[df_fairness['REGION'] == selected_region]
RowsFor(fair, region) == SelectSeq(fair, LAMBDA row : row.REGION = region)

\* if diff < -15 / elif diff > 15 / else
MockAIRetrieval(region, diff) ==
    IF RatLT(diff, -FundingBandPct)
    THEN [template |-> "CRITICAL FINDING: severely underfunded",
          region   |-> region,
          diff     |-> diff,
          cause    |-> "Remote geography or lack of local registration offices.",
          action   |-> <<"Deploy Mobile Registration Units immediately.",
                         "Allocate emergency supplementary budget.">>]
    ELSE IF RatGT(diff, FundingBandPct)
    THEN [template |-> "RISK FINDING: receiving significantly more aid",
          region   |-> region,
          diff     |-> diff,
          cause    |-> "Duplicate beneficiary lists or political bias.",
          action   |-> <<"Initiate Audit of beneficiary list.",
                         "Enforce biometric deduping.">>]
    ELSE [template |-> "POSITIVE: within the fair range",
          region   |-> region,
          diff     |-> diff,
          cause    |-> "System appears to be working as intended.",
          action   |-> <<"Monitor for future changes.">>]

\* if row['PERCENT_DIFF'] < -10 / elif > 10 / else
SuggestedActions(diff) ==
    IF RatLT(diff, -SuggestedActionPct)
    THEN <<"Audit Enrollment", "Review Allocation">>
    ELSE IF RatGT(diff, SuggestedActionPct)
    THEN <<"Normalize">>
    ELSE <<"Maintain">>

(***************************************************************************)
(* State shared by the two apps.                                           *)
(***************************************************************************)
\* a name the run has not bound (reading it raises NameError)
Unbound == "<unbound>"

NoWarehouse == [regions |-> <<>>, coverage |-> <<>>, fairness |-> <<>>,
                anomalies |-> <<>>]

(***************************************************************************)
(* fairaid_app_local_demo.py, one run of the script.                       *)
(***************************************************************************)
Init ==
    /\ pc = "load"
    /\ df_beneficiaries = <<>>
    /\ df_coverage = <<>>
    /\ df_fairness = <<>>
    /\ df_anomalies = <<>>
    /\ global_avg = NaN
    /\ kpi = NoKpi
    /\ selected_region = Unbound
    /\ report = <<>>
    /\ actions = <<>>
    /\ wh = NoWarehouse
    /\ data_source = "core.demo_beneficiaries (Mocked)"
    /\ errors = <<>>
    /\ rendered = {}
    /\ calls = <<>>

\* one iteration of the loop of load_mock_data: data.append({...}); the loop
\* may end after any number of records up to MaxRecords, the empty table
\* included
LoadRecord ==
    /\ pc = "load"
    /\ Len(df_beneficiaries) < MaxRecords
    /\ \E b \in Ids, r \in Regions, a \in Amounts :
          df_beneficiaries' = Append(df_beneficiaries,
              [BENEFICIARY_ID |-> b, REGION |-> r, AMOUNT_RECEIVED |-> a])
    /\ UNCHANGED <<calls, pc, df_coverage, df_fairness, df_anomalies, global_avg, kpi,
                   selected_region, report, actions, wh, data_source, errors,
                   rendered>>

\* df.sample(k): k distinct rows in a random order
Samples(n, k) ==
    {s \in UNION {[1..j -> 1..n] : j \in 0..k} :
        \A i, j \in DOMAIN s : s[i] = s[j] => i = j}

\* dupes['AMOUNT_RECEIVED'] * 1.5
Suspicious(rec) ==
    [rec EXCEPT !.AMOUNT_RECEIVED = (rec.AMOUNT_RECEIVED * 3) \div 2]

\* dupes = df.sample(5).copy(); ...; df = pd.concat([df, dupes]); return df
\* (any number of duplicated rows up to MaxDupes, none included)
ConcatDupes ==
    /\ pc = "load"
    /\ \E s \in Samples(Len(df_beneficiaries), MaxDupes) :
          df_beneficiaries' = df_beneficiaries \o
              [i \in DOMAIN s |-> Suspicious(df_beneficiaries[s[i]])]
    /\ pc' = "views"
    /\ UNCHANGED <<calls, df_coverage, df_fairness, df_anomalies, global_avg, kpi,
                   selected_region, report, actions, wh, data_source, errors,
                   rendered>>

\* lines 68-89 and the KPIs: coverage, fairness, anomalies
ComputeViews ==
    /\ pc = "views"
    /\ df_coverage' = Coverage(df_beneficiaries)
    /\ global_avg' = GlobalAvg(df_beneficiaries)
    /\ df_fairness' = Fairness(df_coverage', global_avg')
    /\ df_anomalies' = Anomalies(df_beneficiaries)
    /\ kpi' = Kpi(df_coverage', df_anomalies')
    /\ pc' = "sidebar"
    /\ UNCHANGED <<calls, df_beneficiaries, selected_region, report, actions, wh,
                   data_source, errors, rendered>>

\* st.selectbox(..., ["All"] + df_coverage['REGION'].tolist())
Sidebar ==
    /\ pc = "sidebar"
    /\ selected_region' \in
          {"All"} \cup {df_coverage[k].REGION : k \in DOMAIN df_coverage}
    /\ pc' = "tabs"
    /\ UNCHANGED <<calls, df_beneficiaries, df_coverage, df_fairness, df_anomalies,
                   global_avg, kpi, report, actions, wh, data_source, errors,
                   rendered>>

\* tab1, tab2 (the report when the button is pressed), tab3
RenderTabs ==
    /\ pc = "tabs"
    /\ \E button \in BOOLEAN :
          IF selected_region # "" /\ selected_region # "All" /\ button
          THEN LET row == RowsFor(df_fairness, selected_region)[1]
               IN  /\ report' = <<MockAIRetrieval(selected_region, row.PERCENT_DIFF)>>
                   /\ actions' = report'[1].action
                   /\ rendered' = {"kpi", "tab1", "report", "tab3"}
          ELSE /\ report' = <<>>
               /\ actions' = <<>>
               /\ rendered' = {"kpi", "tab1", "tab3"}
    /\ pc' = "done"
    /\ UNCHANGED <<calls, df_beneficiaries, df_coverage, df_fairness, df_anomalies,
                   global_avg, kpi, selected_region, wh, data_source, errors>>

Next == LoadRecord \/ ConcatDupes \/ ComputeViews \/ Sidebar \/ RenderTabs

Spec == Init /\ [][Next]_vars

(***************************************************************************)
(* The two label columns as functions of PERCENT_DIFF alone:               *)
(* df_fairness['PERCENT_DIFF'].apply(lambda x: ...), for any PERCENT_DIFF. *)
(***************************************************************************)
\* the halves in -MaxPct .. MaxPct, and NaN
PctInputs == {Rat(k, 2) : k \in (-2 * MaxPct)..(2 * MaxPct)} \cup {NaN}

InitClassify ==
    /\ pc = "status"
    /\ df_beneficiaries = <<>>
    /\ df_coverage = <<>>
    /\ \E r \in Regions, x \in PctInputs :
          df_fairness = <<[REGION |-> r, PERCENT_DIFF |-> x]>>
    /\ df_anomalies = <<>>
    /\ global_avg = NaN
    /\ kpi = NoKpi
    /\ selected_region = Unbound
    /\ report = <<>>
    /\ actions = <<>>
    /\ wh = NoWarehouse
    /\ data_source = "core.demo_beneficiaries (Mocked)"
    /\ errors = <<>>
    /\ rendered = {}
    /\ calls = <<>>

\* df_fairness['STATUS'] = df_fairness['PERCENT_DIFF'].apply(...)
ApplyStatus ==
    /\ pc = "status"
    /\ df_fairness' = [k \in DOMAIN df_fairness |->
          [REGION       |-> df_fairness[k].REGION,
           PERCENT_DIFF |-> df_fairness[k].PERCENT_DIFF,
           STATUS       |-> Status(df_fairness[k].PERCENT_DIFF)]]
    /\ pc' = "distribution_type"
    /\ UNCHANGED <<calls, df_beneficiaries, df_coverage, df_anomalies, global_avg, kpi,
                   selected_region, report, actions, wh, data_source, errors,
                   rendered>>

\* df_fairness['DISTRIBUTION_TYPE'] = df_fairness['PERCENT_DIFF'].apply(...)
ApplyDistributionType ==
    /\ pc = "distribution_type"
    /\ df_fairness' = [k \in DOMAIN df_fairness |->
          [REGION            |-> df_fairness[k].REGION,
           PERCENT_DIFF      |-> df_fairness[k].PERCENT_DIFF,
           STATUS            |-> df_fairness[k].STATUS,
           DISTRIBUTION_TYPE |-> DistributionType(df_fairness[k].PERCENT_DIFF)]]
    /\ pc' = "classified"
    /\ UNCHANGED <<calls, df_beneficiaries, df_coverage, df_anomalies, global_avg, kpi,
                   selected_region, report, actions, wh, data_source, errors,
                   rendered>>

NextClassify == ApplyStatus \/ ApplyDistributionType

SpecClassify == InitClassify /\ [][NextClassify]_vars

(***************************************************************************)
(* fairaid_app.py, one run of the script against the warehouse.            *)
(***************************************************************************)
\* PERCENT_DIFF values of core.vw_fairness_analysis
ViewPcts == {-16, -15, -11, -10, 0, 10, 11, 15, 16}

\* a row of core.vw_fairness_analysis
ViewFairnessRow(r, x) ==
    [REGION            |-> r,
     AVG_AMOUNT        |-> FromInt(100 + x),
     PERCENT_DIFF      |-> FromInt(x),
     STATUS            |-> Status(FromInt(x)),
     DISTRIBUTION_TYPE |-> DistributionType(FromInt(x))]

\* a row of core.vw_coverage_stats
ViewCoverageRow(r, x) ==
    [REGION              |-> r,
     TOTAL_BENEFICIARIES |-> 1,
     TOTAL_DISTRIBUTED   |-> 100 + x,
     AVG_AMOUNT          |-> FromInt(100 + x)]

\* the rows of core.vw_anomalies
ViewAnomalies ==
    {<<>>,
     <<[BENEFICIARY_ID |-> "BEN-1", record_count |-> 2,
        ANOMALY_TYPE |-> "Duplicate Record", RISK_SCORE |-> "High"]>>}

\* the contents of the warehouse: the regions of core.demo_beneficiaries
\* and the three views over it
Warehouses ==
    {[regions   |-> present,
      coverage  |-> [k \in DOMAIN present |-> ViewCoverageRow(present[k], x[present[k]])],
      fairness  |-> [k \in DOMAIN present |-> ViewFairnessRow(present[k], x[present[k]])],
      anomalies |-> a] :
        present \in {SelectSeq(RegionOrder, LAMBDA r : r \in R) : R \in SUBSET Regions},
        x \in [Regions -> ViewPcts],
        a \in ViewAnomalies}

InitApp ==
    /\ pc = "sidebar"
    /\ df_beneficiaries = <<>>
    /\ df_coverage = <<>>
    /\ df_fairness = <<>>
    /\ df_anomalies = <<>>
    /\ global_avg = NaN
    /\ kpi = NoKpi
    /\ selected_region = Unbound
    /\ report = <<>>
    /\ actions = <<>>
    /\ wh \in Warehouses
    /\ data_source = ""
    /\ errors = <<>>
    /\ rendered = {}
    /\ calls = <<>>

\* except Exception as e (outer): st.error(f"Application Error: {e}")
ApplicationError(e) ==
    /\ errors' = Append(errors, "Application Error: " \o e)
    /\ pc' = "done"

\* with st.sidebar: lines 31-47
AppSidebar ==
    /\ pc = "sidebar"
    /\ \E ds \in {"core.demo_beneficiaries", "Custom (Not Configured)"} :
          /\ data_source' = ds
          /\ IF ds = "core.demo_beneficiaries"
             THEN \/ /\ selected_region' \in
                          {"All"} \cup {wh.regions[k] : k \in DOMAIN wh.regions}
                      /\ errors' = errors
                   \/ /\ errors' = Append(errors, "Setup incomplete. Run Setup Script.")
                      /\ selected_region' = "All"
             ELSE /\ selected_region' = selected_region
                  /\ errors' = errors
    /\ pc' = "main"
    /\ UNCHANGED <<calls, df_beneficiaries, df_coverage, df_fairness, df_anomalies,
                   global_avg, kpi, report, actions, wh, rendered>>

\* lines 50-96: the three views, the KPIs and tab1
AppMain ==
    /\ pc = "main"
    /\ \/ /\ df_coverage' = wh.coverage
          /\ df_fairness' = wh.fairness
          /\ df_anomalies' = wh.anomalies
          /\ kpi' = Kpi(df_coverage', df_anomalies')
          /\ rendered' = rendered \cup {"kpi", "tab1"}
          /\ pc' = "tab2"
          /\ errors' = errors
       \/ /\ ApplicationError("view not found")
          /\ UNCHANGED <<df_coverage, df_fairness, df_anomalies, kpi, rendered>>
    /\ UNCHANGED <<calls, df_beneficiaries, global_avg, selected_region, report, actions,
                   wh, data_source>>

\* except Exception as e (inner): st.error(f"Error generating AI summary: {e}")
SummaryError(e) ==
    /\ errors' = Append(errors, "Error generating AI summary: " \o e)
    /\ pc' = "tab3"

\* sql = f"CALL core.get_ai_summary('{selected_region}')"; session.sql(sql)
CallAiSummary(ok) ==
    calls' = Append(calls, [sql |-> "CALL core.get_ai_summary",
                            region |-> selected_region, ok |-> ok])

\* without the inner try: the exception reaches the outer handler
GenerateReportFailsUncaught ==
    /\ CallAiSummary(FALSE)
    /\ ApplicationError("call failed")
    /\ UNCHANGED <<report, actions, rendered>>

\* session.sql("CALL core.get_ai_summary(...)").collect() raises
GenerateReportFails ==
    /\ CallAiSummary(FALSE)
    /\ SummaryError("call failed")
    /\ UNCHANGED <<report, actions, rendered>>

\* the call returns: the report, then the suggested actions
GenerateReport ==
    /\ CallAiSummary(TRUE)
    /\ report' = <<[template |-> "summary", region |-> selected_region]>>
    /\ LET rows == RowsFor(df_fairness, selected_region)
       IN  IF rows = <<>>
           THEN /\ SummaryError("single positional indexer is out-of-bounds")
                /\ rendered' = rendered \cup {"report"}
                /\ actions' = actions
           ELSE /\ actions' = SuggestedActions(rows[1].PERCENT_DIFF)
                /\ rendered' = rendered \cup {"report", "actions"}
                /\ pc' = "tab3"
                /\ errors' = errors

\* with tab2: lines 98-126
AppTab2 ==
    /\ pc = "tab2"
    /\ IF selected_region = Unbound
       THEN /\ ApplicationError("name 'selected_region' is not defined")
            /\ UNCHANGED <<report, actions, rendered, calls>>
       ELSE IF selected_region # "" /\ selected_region # "All"
       THEN \E button \in BOOLEAN :
              IF button
              THEN GenerateReport \/ GenerateReportFails
              ELSE /\ pc' = "tab3"
                   /\ UNCHANGED <<report, actions, rendered, errors, calls>>
       ELSE /\ pc' = "tab3"
            /\ rendered' = rendered \cup {"warning"}
            /\ UNCHANGED <<report, actions, errors, calls>>
    /\ UNCHANGED <<df_beneficiaries, df_coverage, df_fairness, df_anomalies,
                   global_avg, kpi, selected_region, wh, data_source>>

\* with tab3: lines 128-150
AppTab3 ==
    /\ pc = "tab3"
    /\ \/ /\ rendered' = rendered \cup {"anomalies", "raw_data"}
          /\ pc' = "done"
          /\ errors' = errors
       \/ /\ rendered' = rendered \cup {"anomalies"}
          /\ ApplicationError("table not found")
    /\ UNCHANGED <<calls, df_beneficiaries, df_coverage, df_fairness, df_anomalies,
                   global_avg, kpi, selected_region, report, actions, wh,
                   data_source>>

NextApp == AppSidebar \/ AppMain \/ AppTab2 \/ AppTab3

SpecApp == InitApp /\ [][NextApp]_vars

(***************************************************************************)
(* Properties.  The counts and sums below are taken over index sets of     *)
(* df_beneficiaries, independently of the group-by operators above.        *)
(***************************************************************************)
RECURSIVE SumOver(_, _)
SumOver(df, S) ==
    IF S = {} THEN 0
    ELSE LET i == CHOOSE j \in S : TRUE
         IN  df[i].AMOUNT_RECEIVED + SumOver(df, S \ {i})

IdxRegion(r) ==
    {i \in DOMAIN df_beneficiaries : df_beneficiaries[i].REGION = r}

IdxId(b) ==
    {i \in DOMAIN df_beneficiaries : df_beneficiaries[i].BENEFICIARY_ID = b}

RegionsPresent == {df_beneficiaries[i].REGION : i \in DOMAIN df_beneficiaries}

\* the local demo has computed its three tables
Computed == pc \in {"sidebar", "tabs", "done"}

RegionSizesDiffer ==
    \E r1, r2 \in RegionsPresent :
        Cardinality(IdxRegion(r1)) # Cardinality(IdxRegion(r2))

\* global_avg is sum(all amounts) / count(all records) and PERCENT_DIFF is
\* taken against it
UsesPopulationMean ==
    LET N == Len(df_beneficiaries)
        S == SumOver(df_beneficiaries, DOMAIN df_beneficiaries)
    IN  /\ N > 0 => (global_avg.d > 0 /\ global_avg.n * N = S * global_avg.d)
        /\ \A k \in DOMAIN df_fairness :
              LET row == df_fairness[k]
                  nr  == Cardinality(IdxRegion(row.REGION))
                  sr  == SumOver(df_beneficiaries, IdxRegion(row.REGION))
                  x   == row.PERCENT_DIFF
              IN  /\ row.GLOBAL_AVG = global_avg
                  /\ S > 0 => /\ x.d > 0
                              /\ x.n * (nr * S) = x.d * 100 * (sr * N - S * nr)

\* C1 (as amended): the global average the Fairness Classifier uses for
\* percent_diff is sum(all amount_received) / count(all records), for every
\* record set and partition into regions; the mean of the per-region
\* averages can differ from it only when region sizes differ.
GlobalAvgIsPopulationMean ==
    Computed =>
        /\ UsesPopulationMean
        /\ kpi.avg_aid # global_avg => RegionSizesDiffer

\* C1 witness: two regions of different sizes, where the mean of the
\* per-region averages is not the global average the classifier used
GlobalAvgWitness ==
    /\ Computed
    /\ Len(df_fairness) = 2
    /\ RegionSizesDiffer
    /\ kpi.avg_aid # global_avg
    /\ df_fairness[1].GLOBAL_AVG = global_avg
    /\ \E k \in DOMAIN df_fairness : df_fairness[k].STATUS = "High Disparity"

\* C1 (as stated): the classifier uses sum/count, and the mean of the
\* per-region averages differs from it whenever region sizes differ
GlobalAvgDiffersWheneverSizesDiffer ==
    Computed =>
        /\ UsesPopulationMean
        /\ RegionSizesDiffer => kpi.avg_aid # global_avg

\* abs(x) > k for a finite x; false for NaN
AbsExceeds(x, k) == x.d > 0 /\ (x.n > k * x.d \/ -x.n > k * x.d)

\* C2: status and distribution_type are total functions of percent_diff with
\* strict comparisons: High Disparity iff abs > 20, Moderate Disparity iff
\* 10 < abs <= 20, else Fair; Underfunded iff < -15, Overfunded iff > 15, else
\* Balanced; at -20, -15, -10, 10, 15, 20 the less severe label is assigned.
LabelsFollowStrictThresholds ==
    pc = "classified" =>
        \A k \in DOMAIN df_fairness :
            LET row == df_fairness[k]
                x   == row.PERCENT_DIFF
            IN  /\ row.STATUS \in {"High Disparity", "Moderate Disparity", "Fair"}
                /\ row.DISTRIBUTION_TYPE \in {"Underfunded", "Overfunded", "Balanced"}
                /\ row.STATUS = "High Disparity" <=> AbsExceeds(x, 20)
                /\ row.STATUS = "Moderate Disparity" <=>
                        (AbsExceeds(x, 10) /\ ~AbsExceeds(x, 20))
                /\ row.STATUS = "Fair" <=> ~AbsExceeds(x, 10)
                /\ row.DISTRIBUTION_TYPE = "Underfunded" <=>
                        (x.d > 0 /\ x.n < -15 * x.d)
                /\ row.DISTRIBUTION_TYPE = "Overfunded" <=>
                        (x.d > 0 /\ x.n > 15 * x.d)
                /\ x \in {FromInt(-20), FromInt(20)} =>
                        row.STATUS = "Moderate Disparity"
                /\ x \in {FromInt(-10), FromInt(10)} => row.STATUS = "Fair"
                /\ x \in {FromInt(-15), FromInt(15)} =>
                        row.DISTRIBUTION_TYPE = "Balanced"

\* C2 witness: a row classified at the boundary value -20
BoundaryWitness ==
    /\ pc = "classified"
    /\ df_fairness[1].PERCENT_DIFF = FromInt(-20)
    /\ df_fairness[1].STATUS = "Moderate Disparity"
    /\ df_fairness[1].DISTRIBUTION_TYPE = "Underfunded"

\* C10: the two labels of a row never contradict each other: Underfunded or
\* Overfunded is never Fair, High Disparity is never Balanced; Fair implies
\* Balanced, and Balanced implies Fair or Moderate Disparity.
LabelsNeverContradict ==
    pc = "classified" =>
        \A k \in DOMAIN df_fairness :
            LET st == df_fairness[k].STATUS
                dt == df_fairness[k].DISTRIBUTION_TYPE
            IN  /\ dt \in {"Underfunded", "Overfunded"} => st # "Fair"
                /\ st = "High Disparity" => dt # "Balanced"
                /\ st = "Fair" => dt = "Balanced"
                /\ dt = "Balanced" => st \in {"Fair", "Moderate Disparity"}

\* C10 witness: a Balanced row of Moderate Disparity, between the two bands
BetweenBandsWitness ==
    /\ pc = "classified"
    /\ df_fairness[1].PERCENT_DIFF = Rat(25, 2)
    /\ df_fairness[1].STATUS = "Moderate Disparity"
    /\ df_fairness[1].DISTRIBUTION_TYPE = "Balanced"

\* C4: exactly one AnomalyRow for a beneficiary_id iff the id occurs at least
\* twice in the records; its record_count is the number of occurrences, its
\* anomaly_type 'Duplicate Record' and its risk_score 'High'.
OneAnomalyRowPerDuplicatedId ==
    Computed =>
        /\ \A k \in DOMAIN df_anomalies : df_anomalies[k].BENEFICIARY_ID \in Ids
        /\ \A b \in Ids :
              LET occ  == Cardinality(IdxId(b))
                  rows == {k \in DOMAIN df_anomalies :
                              df_anomalies[k].BENEFICIARY_ID = b}
              IN  /\ Cardinality(rows) = (IF occ >= 2 THEN 1 ELSE 0)
                  /\ \A k \in rows :
                        /\ df_anomalies[k].record_count = occ
                        /\ df_anomalies[k].ANOMALY_TYPE = "Duplicate Record"
                        /\ df_anomalies[k].RISK_SCORE = "High"

\* C4 witness: one id occurs twice and has its row, the other occurs
\* once and has none
DuplicateWitness ==
    /\ Computed
    /\ \E b, c \in Ids :
          /\ Cardinality(IdxId(b)) = 2
          /\ Cardinality(IdxId(c)) = 1
          /\ Len(df_anomalies) = 1
          /\ df_anomalies[1].BENEFICIARY_ID = b
          /\ df_anomalies[1].record_count = 2

\* C5: one CoverageRow per distinct region present and none for an absent
\* one; total_beneficiaries counts distinct ids of the region, while
\* total_distributed and avg_amount are the sum and the mean over all the
\* region's records, duplicates included.
CoverageRowPerRegion ==
    Computed =>
        /\ {df_coverage[k].REGION : k \in DOMAIN df_coverage} = RegionsPresent
        /\ Len(df_coverage) = Cardinality(RegionsPresent)
        /\ \A k \in DOMAIN df_coverage :
              LET row == df_coverage[k]
                  idx == IdxRegion(row.REGION)
                  sum == SumOver(df_beneficiaries, idx)
              IN  /\ row.TOTAL_BENEFICIARIES = Cardinality(
                          {b \in Ids : IdxId(b) \cap idx # {}})
                  /\ row.TOTAL_DISTRIBUTED = sum
                  /\ row.AVG_AMOUNT.d > 0
                  /\ row.AVG_AMOUNT.n * Cardinality(idx) = sum * row.AVG_AMOUNT.d

\* C5 witness: a region holding a duplicated id: two records, one
\* beneficiary, the sum and the mean over both records
DuplicateInRegionWitness ==
    /\ Computed
    /\ \E k \in DOMAIN df_coverage :
          /\ Cardinality(IdxRegion(df_coverage[k].REGION)) = 2
          /\ df_coverage[k].TOTAL_BENEFICIARIES = 1
          /\ df_coverage[k].TOTAL_DISTRIBUTED = 30
          /\ df_coverage[k].AVG_AMOUNT = FromInt(15)
    /\ Cardinality(RegionsPresent) < Cardinality(Regions)

\* C6: for a non-empty record set the sum of total_distributed over the
\* CoverageRows ('Total Aid Disbursed') is the sum of amount_received over
\* all records.
TotalIsConserved ==
    (Computed /\ df_beneficiaries # <<>>) =>
        /\ kpi.total_aid = SumOver(df_beneficiaries, DOMAIN df_beneficiaries)
        /\ kpi.total_aid = SumSeq([k \in DOMAIN df_coverage |->
                                      df_coverage[k].TOTAL_DISTRIBUTED])

\* C6 witness: two regions, one with a duplicated beneficiary
ConservationWitness ==
    /\ Computed
    /\ Len(df_coverage) = 2
    /\ Len(df_anomalies) = 1
    /\ kpi.total_aid = 48
    /\ df_coverage[1].TOTAL_DISTRIBUTED = 30

\* C7: when the global average is zero the classifier does not fault, and
\* every FairnessRow has percent_diff 0 and status 'Fair'.
ZeroGlobalAvgIsZeroDiff ==
    (Computed /\ df_beneficiaries # <<>> /\ global_avg = FromInt(0)) =>
        /\ errors = <<>>
        /\ \A k \in DOMAIN df_fairness :
              /\ df_fairness[k].PERCENT_DIFF = FromInt(0)
              /\ df_fairness[k].STATUS = "Fair"

\* the band a list of suggested actions belongs to
BandOfActions(a) ==
    IF a \in {<<"Deploy Mobile Registration Units immediately.",
                "Allocate emergency supplementary budget.">>,
              <<"Audit Enrollment", "Review Allocation">>}
    THEN "Underfunded"
    ELSE IF a \in {<<"Initiate Audit of beneficiary list.",
                     "Enforce biometric deduping.">>,
                   <<"Normalize">>}
    THEN "Overfunded"
    ELSE "Balanced"

\* C3: the narrative/action branch taken for the selected region is the one
\* of that region's distribution_type (the -15/+15 bands), in the local
\* generator and in the suggested actions of the warehouse-backed app.
InsightBranchIsDistributionType ==
    actions # <<>> =>
        LET row  == RowsFor(df_fairness, selected_region)[1]
            x    == row.PERCENT_DIFF
            band == IF x.d > 0 /\ x.n < -15 * x.d THEN "Underfunded"
                    ELSE IF x.d > 0 /\ x.n > 15 * x.d THEN "Overfunded"
                    ELSE "Balanced"
        IN  /\ BandOfActions(actions) = band
            /\ row.DISTRIBUTION_TYPE = band

SummaryErrors ==
    {i \in DOMAIN errors : errors[i] = "Error generating AI summary: call failed"}

ApplicationErrors ==
    {i \in DOMAIN errors :
        errors[i] \in {"Application Error: view not found",
                       "Application Error: table not found",
                       "Application Error: call failed",
                       "Application Error: name 'selected_region' is not defined"}}

\* the summarization call was made and it failed
SummaryCallFailed == \E i \in DOMAIN calls : ~calls[i].ok

\* what a failed summarization call leaves behind, whatever comes after it
SummaryFailureContained ==
    /\ Len(calls) = 1
    /\ calls[1].region = selected_region
    /\ Cardinality(SummaryErrors) = 1
    /\ report = <<>>
    /\ actions = <<>>
    /\ rendered \cap {"report", "actions"} = {}
    /\ df_fairness = wh.fairness
    /\ df_coverage = wh.coverage
    /\ pc \in {"tab3", "done"}

RegionSelectionIsDefined ==
    /\ pc = "tab2" => selected_region # Unbound
    /\ (pc = "done" /\ "tab1" \in rendered) => "anomalies" \in rendered

====
